---------------------------- MODULE Spec2Model ----------------------------
(***************************************************************************)
(* Monitored-item lifecycle of open62541pp (services/MonitoredItem.cpp).   *)
(*                                                                         *)
(* One connection is modelled: a Client or a Server (variable role).  The  *)
(* connection owns the registry `monitoredItems` (ClientContext /          *)
(* ServerContext), a map from monitored-item keys to owned callback        *)
(* contexts.  The native stack (open62541) is the environment: it keeps    *)
(* its own bookkeeping of subscriptions and monitored items, answers the   *)
(* service calls and, inside a call or inside runIterate, invokes the      *)
(* callback adapters of MonitoredItem.cpp with the context address it was  *)
(* given when the item was created.                                        *)
(***************************************************************************)
EXTENDS Integers, Sequences, FiniteSets, TLC

\* Bounds of the model.
MaxSubscriptions == 1
MaxMonitoredItems == 2
MaxNotifications == 2
MaxLinks == 1
MaxAsyncCalls == 3

\* nullptr
Null == 0

Good == "Good"

\* A std::function is empty, or returns normally, or throws when invoked.
NoCallback == "empty"
CallbackBehaviours == {"empty", "returns", "throws"}

\* The user callbacks a caller passes when it creates an item: the
\* notification callback and the delete callback.
CallbackChoices ==
    { [notification |-> "returns", delete |-> "returns"],
      [notification |-> "throws", delete |-> "empty"],
      [notification |-> "empty", delete |-> "throws"] }

MonitoringModes == {"Disabled", "Sampling", "Reporting"}

\* Nodes a caller may ask to monitor: one the peer knows, one it does not.
Nodes == {"CurrentTime", "Unknown"}

\* MonitoringParameters the caller passes in (samplingInterval, queueSize).
ParameterChoices ==
    { [samplingInterval |-> 10, queueSize |-> 0],
      [samplingInterval |-> 250, queueSize |-> 2] }

NoParameters == [samplingInterval |-> 0, queueSize |-> 0]

\* Identifiers a caller may pass.
SubscriptionIds == 1..MaxSubscriptions
MonitoredItemIds == 1..MaxMonitoredItems

\* The link lists a caller may pass to setTriggering.
Links == UNION {[1..n -> MonitoredItemIds] : n \in 0..MaxLinks}

VARIABLES
    role,                 \* "client" or "server": the kind of connection
    monitoredItems,       \* the registry: key -> owned context
    subscriptions,        \* native stack: subscription id -> settings
    lastSubscriptionId,   \* native stack: last subscription id assigned
    nativeItems,          \* native stack: key -> monitored item bookkeeping
    lastMonitoredItemId,  \* native stack: last item id assigned, per subscription
    last,                 \* the last operation and its outcome (observation)
    calls,                \* user callbacks invoked by the last operation, in order
    erased,               \* keys whose registry entry was erased by a deletion
    deleted,              \* keys whose deleteMonitoredItem call succeeded
    undefined,            \* a context was read through an address that is not live
    triggering,           \* the request and the answer of the last setTriggering
    connected,            \* the Client's connection has not been torn down
    lastRequestId,        \* native stack: last correlation token assigned
    pendingAsyncCalls,    \* correlation token -> request of an outstanding call
    futures,              \* correlation token -> what the caller's future holds
    resolutions,          \* correlation token -> times its promise was completed
    deleteCallbackCalls   \* keys whose user delete callback has been invoked

asyncVars == << connected, lastRequestId, pendingAsyncCalls, futures, resolutions >>

vars == << role, monitoredItems, subscriptions, lastSubscriptionId, nativeItems,
           lastMonitoredItemId, last, calls, erased, deleted, undefined, triggering,
           asyncVars, deleteCallbackCalls >>

----------------------------------------------------------------------------
\* std::map operations on the registry.

EmptyMap == [k \in {} |-> Null]

InsertOrAssign(map, key, value) ==
    [k \in DOMAIN map \cup {key} |-> IF k = key THEN value ELSE map[k]]

Erase(map, key) == [k \in DOMAIN map \ {key} |-> map[k]]

\* std::make_unique: an address no live context occupies.
NewAddress(reg) ==
    LET free == (1..(Cardinality(DOMAIN reg) + 1)) \ {reg[k].address : k \in DOMAIN reg}
    IN  CHOOSE a \in free : \A b \in free : a <= b

Live(reg, address) == \E k \in DOMAIN reg : reg[k].address = address

OwnerOf(reg, address) == CHOOSE k \in DOMAIN reg : reg[k].address = address

\* detail::throwOnBadStatus throws BadStatus(code) unless the code is good.
IsBad(statusCode) == statusCode # Good

\* The registry key of a monitored item.
ClientKey(subId, monId) == << subId, monId >>


----------------------------------------------------------------------------
\* The callback adapters the native stack invokes (MonitoredItem.cpp:17-86).
\* They run on a dispatch state s: the registry, the native bookkeeping, the
\* list of user callbacks invoked so far, and whether a user callback threw
\* (the exception then leaves the adapter and every frame above it).

DispatchState(reg, nat, era) ==
    [ monitoredItems |-> reg, nativeItems |-> nat, calls |-> << >>,
      erased |-> era, exception |-> FALSE, undefined |-> FALSE ]

\* A user callback is invoked with (subId, monId); `key` is the registry key
\* of the notification and monContext the address the adapter read it from.
InvokeCallback(s, name, callback, key, subId, monId, monContext) ==
    [ s EXCEPT
        !.calls = Append(@, [ callback |-> name, subId |-> subId, monId |-> monId,
                              owner |-> OwnerOf(s.monitoredItems, monContext),
                              registered |-> key \in DOMAIN s.monitoredItems,
                              afterErase |-> key \in s.erased,
                              monitoringMode |-> IF key \in DOMAIN s.nativeItems
                                                 THEN s.nativeItems[key].monitoringMode
                                                 ELSE "none",
                              publishingEnabled |->
                                  \/ role = "server"
                                  \/ /\ key[1] \in DOMAIN subscriptions
                                     /\ subscriptions[key[1]].publishingEnabled ]),
        !.exception = (callback = "throws") ]

\* static_cast<MonitoredItem*>(monContext)->field: reading through an address
\* that no live context occupies is undefined behaviour.
CallThrough(s, name, field, key, subId, monId, monContext) ==
    IF ~Live(s.monitoredItems, monContext)
    THEN [s EXCEPT !.undefined = TRUE]
    ELSE LET monitoredItem == s.monitoredItems[OwnerOf(s.monitoredItems, monContext)]
         IN  IF monitoredItem[field] # NoCallback
             THEN InvokeCallback(s, name, monitoredItem[field], key, subId, monId, monContext)
             ELSE s

\* Mutant: the data-change adapter never invokes the stored callback.
dataChangeNotificationCallbackServer_Dropping(s, monitoredItemId, monitoredItemContext) == s

dataChangeNotificationCallbackServer(s, monitoredItemId, monitoredItemContext) ==
    IF monitoredItemContext = Null
    THEN s
    ELSE CallThrough(s, "dataChange", "dataChangeCallback", monitoredItemId,
                     0, monitoredItemId, monitoredItemContext)

\* Mutant: the data-change adapter passes the two ids in the wrong order.
dataChangeNotificationCallbackClient_IdsSwapped(s, subId, monId, monContext) ==
    IF monContext = Null
    THEN s
    ELSE CallThrough(s, "dataChange", "dataChangeCallback", ClientKey(subId, monId),
                     monId, subId, monContext)

\* Mutant: the data-change adapter without its nullptr guard.
dataChangeNotificationCallbackClient_NoNullCheck(s, subId, monId, monContext) ==
    CallThrough(s, "dataChange", "dataChangeCallback", ClientKey(subId, monId),
                subId, monId, monContext)

dataChangeNotificationCallbackClient(s, subId, monId, monContext) ==
    IF monContext = Null
    THEN s
    ELSE CallThrough(s, "dataChange", "dataChangeCallback", ClientKey(subId, monId),
                     subId, monId, monContext)

\* Mutant: the event adapter without its nullptr guard.
eventNotificationCallback_NoNullCheck(s, subId, monId, monContext) ==
    CallThrough(s, "event", "eventCallback", ClientKey(subId, monId),
                subId, monId, monContext)

eventNotificationCallback(s, subId, monId, monContext) ==
    IF monContext = Null
    THEN s
    ELSE CallThrough(s, "event", "eventCallback", ClientKey(subId, monId),
                     subId, monId, monContext)

\* Mutant: the delete-confirmation takes the delete callback out of the
\* context, erases the registry entry and only then invokes the callback.
deleteMonitoredItemCallback_EraseFirst(s, subId, monId, monContext) ==
    LET key == ClientKey(subId, monId)
        callback == IF monContext # Null /\ Live(s.monitoredItems, monContext)
                    THEN s.monitoredItems[OwnerOf(s.monitoredItems, monContext)].deleteCallback
                    ELSE NoCallback
        erasedFirst == [ s EXCEPT !.monitoredItems = Erase(@, key),
                                  !.erased = @ \cup ({key} \cap DOMAIN s.monitoredItems) ]
    IN  IF callback = NoCallback
        THEN erasedFirst
        ELSE [ erasedFirst EXCEPT
                 !.calls = Append(@, [ callback |-> "delete", subId |-> subId, monId |-> monId,
                                       owner |-> key,
                                       registered |-> key \in DOMAIN erasedFirst.monitoredItems,
                                       afterErase |-> key \in erasedFirst.erased ]),
                 !.exception = (callback = "throws") ]

\* Mutant: a delete-confirmation without a context returns at once.
deleteMonitoredItemCallback_ReturnOnNull(s, subId, monId, monContext) ==
    IF monContext = Null
    THEN s
    ELSE LET called == CallThrough(s, "delete", "deleteCallback", ClientKey(subId, monId),
                                   subId, monId, monContext)
         IN  IF called.exception \/ called.undefined
             THEN called
             ELSE [ called EXCEPT
                      !.monitoredItems = Erase(@, ClientKey(subId, monId)),
                      !.erased = @ \cup ({ClientKey(subId, monId)} \cap DOMAIN called.monitoredItems) ]

deleteMonitoredItemCallback(s, subId, monId, monContext) ==
    LET called == IF monContext # Null
                  THEN CallThrough(s, "delete", "deleteCallback", ClientKey(subId, monId),
                                   subId, monId, monContext)
                  ELSE s
    IN  IF called.exception \/ called.undefined
        THEN called
        ELSE [ called EXCEPT
                 !.monitoredItems = Erase(@, ClientKey(subId, monId)),
                 !.erased = @ \cup ({ClientKey(subId, monId)} \cap DOMAIN called.monitoredItems) ]

----------------------------------------------------------------------------
\* The native stack surfacing callbacks.  It passes the context address it
\* holds for the item; for an item it does not (or no longer) know it holds
\* none and passes nullptr.

NativeContext(nat, key) == IF key \in DOMAIN nat THEN nat[key].context ELSE Null

\* One callback surfaced by the native stack: a notification, or the
\* delete-confirmation of a client item whose deletion the peer has answered
\* (the stack drops the item from its bookkeeping as it confirms).
Deliver(s, e) ==
    LET monContext == NativeContext(s.nativeItems, e.key)
    IN  IF role = "server"
        THEN dataChangeNotificationCallbackServer(s, e.key, monContext)
        ELSE CASE e.type = "dataChange" ->
                    dataChangeNotificationCallbackClient(s, e.key[1], e.key[2], monContext)
               [] e.type = "event" ->
                    eventNotificationCallback(s, e.key[1], e.key[2], monContext)
               [] e.type = "delete" ->
                    IF e.key \in DOMAIN s.nativeItems
                    THEN deleteMonitoredItemCallback(
                             [s EXCEPT !.nativeItems = Erase(@, e.key)],
                             e.key[1], e.key[2], monContext)
                    ELSE s

\* The callbacks of one native call, in the order the stack surfaces them; an
\* exception thrown by a user callback unwinds out of the native call, so the
\* callbacks after it are not surfaced.
RECURSIVE RunCallbacks(_, _)
RunCallbacks(s, batch) ==
    IF batch = << >> \/ s.exception \/ s.undefined
    THEN s
    ELSE RunCallbacks(Deliver(s, Head(batch)), Tail(batch))

----------------------------------------------------------------------------
\* The native stack answering service calls.  Each operator gives the set of
\* answers the stack may return in the current state.

BadResult(statusCode) ==
    [ statusCode |-> statusCode, monitoredItemId |-> 0,
      revisedSamplingInterval |-> 0, revisedQueueSize |-> 0 ]

\* The peer may keep the requested values or clamp them to its limits.
Revised(parameters) ==
    { parameters,
      [ samplingInterval |-> IF parameters.samplingInterval < 50 THEN 50
                             ELSE parameters.samplingInterval,
        queueSize |-> IF parameters.queueSize < 1 THEN 1 ELSE parameters.queueSize ] }

\* The item ids the stack has assigned so far.
IssuedKeys ==
    IF role = "server"
    THEN 1..lastMonitoredItemId[0]
    ELSE {k \in SubscriptionIds \X MonitoredItemIds : k[2] <= lastMonitoredItemId[k[1]]}

\* Monitored item ids are assigned in increasing order per subscription (the
\* Server's local items count as subscription 0); the peer creates at most
\* MaxMonitoredItems items.
CreateResults(subscriptionId, itemToMonitor, parameters) ==
    IF itemToMonitor = "Unknown"
    THEN {BadResult("BadNodeIdUnknown")}
    ELSE IF Cardinality(IssuedKeys) >= MaxMonitoredItems
    THEN {BadResult("BadTooManyMonitoredItems")}
    ELSE { [ statusCode |-> Good,
             monitoredItemId |-> lastMonitoredItemId[subscriptionId] + 1,
             revisedSamplingInterval |-> r.samplingInterval,
             revisedQueueSize |-> r.queueSize ] : r \in Revised(parameters) }

UA_Client_MonitoredItems_create(subscriptionId, itemToMonitor, parameters) ==
    IF subscriptionId \notin DOMAIN subscriptions
    THEN {BadResult("BadSubscriptionIdInvalid")}
    ELSE CreateResults(subscriptionId, itemToMonitor, parameters)

UA_Server_createDataChangeMonitoredItem(itemToMonitor, parameters) ==
    CreateResults(0, itemToMonitor, parameters)

\* An item the stack knows and whose deletion has not been answered yet.
NativeKnows(key) == key \in DOMAIN nativeItems /\ ~nativeItems[key].deleting

UA_Client_MonitoredItems_modify(subscriptionId, monitoredItemId, parameters) ==
    IF subscriptionId \notin DOMAIN subscriptions
    THEN {[serviceResult |-> "BadSubscriptionIdInvalid", results |-> << >>]}
    ELSE {[serviceResult |-> Good, results |-> << >>]} \cup
         IF ~NativeKnows(ClientKey(subscriptionId, monitoredItemId))
         THEN {[serviceResult |-> Good,
                results |-> << BadResult("BadMonitoredItemIdInvalid") >>]}
         ELSE {[serviceResult |-> Good,
                results |-> << [ statusCode |-> Good, monitoredItemId |-> monitoredItemId,
                                 revisedSamplingInterval |-> r.samplingInterval,
                                 revisedQueueSize |-> r.queueSize ] >>]
                 : r \in Revised(parameters)}

UA_Client_MonitoredItems_setMonitoringMode(subscriptionId, monitoredItemId) ==
    IF subscriptionId \notin DOMAIN subscriptions
    THEN {[serviceResult |-> "BadSubscriptionIdInvalid", results |-> << >>]}
    ELSE {[serviceResult |-> Good, results |-> << >>]} \cup
         IF ~NativeKnows(ClientKey(subscriptionId, monitoredItemId))
         THEN {[serviceResult |-> Good, results |-> << "BadMonitoredItemIdInvalid" >>]}
         ELSE {[serviceResult |-> Good, results |-> << Good >>]}

\* The delete-confirmation of a client item runs inside the delete call or
\* is left for a later runIterate.
UA_Client_MonitoredItems_deleteSingle(subscriptionId, monitoredItemId) ==
    IF subscriptionId \notin DOMAIN subscriptions
    THEN {[statusCode |-> "BadSubscriptionIdInvalid", confirmed |-> FALSE]}
    ELSE IF ~NativeKnows(ClientKey(subscriptionId, monitoredItemId))
    THEN {[statusCode |-> "BadMonitoredItemIdInvalid", confirmed |-> FALSE]}
    ELSE {[statusCode |-> Good, confirmed |-> c] : c \in BOOLEAN}

\* The answer carries one status per link: good for an item the stack
\* knows under the subscription, BadMonitoredItemIdInvalid otherwise.
LinkResults(subscriptionId, links) ==
    [ i \in 1..Len(links) |->
        IF NativeKnows(ClientKey(subscriptionId, links[i]))
        THEN Good ELSE "BadMonitoredItemIdInvalid" ]

UA_Client_MonitoredItems_setTriggering(subscriptionId, triggeringItemId, linksToAdd, linksToRemove) ==
    IF subscriptionId \notin DOMAIN subscriptions
    THEN [serviceResult |-> "BadSubscriptionIdInvalid", addResults |-> << >>, removeResults |-> << >>]
    ELSE IF ~NativeKnows(ClientKey(subscriptionId, triggeringItemId))
    THEN [serviceResult |-> "BadMonitoredItemIdInvalid", addResults |-> << >>, removeResults |-> << >>]
    ELSE [ serviceResult |-> Good,
           addResults |-> LinkResults(subscriptionId, linksToAdd),
           removeResults |-> LinkResults(subscriptionId, linksToRemove) ]

UA_Server_deleteMonitoredItem(monitoredItemId) ==
    IF monitoredItemId \in DOMAIN nativeItems THEN Good ELSE "BadMonitoredItemIdInvalid"

NativeItem(context, kind, monitoringMode) ==
    [ context |-> context, kind |-> kind, monitoringMode |-> monitoringMode,
      deleting |-> FALSE, switched |-> FALSE ]

----------------------------------------------------------------------------
\* The services of MonitoredItem.cpp, as functions of the registry, the
\* caller's arguments and the native stack's answer.  Each gives the status
\* the call ends with (Good, or the BadStatus thrown), the registry and the
\* caller's MonitoringParameters after the call, and the id returned.

\* Mutant: the registry stores a copy of the context at another address
\* than the one handed to the native stack.
MonitoredItemContext_Copied(reg, itemToMonitor, dataChangeCallback, eventCallback, deleteCallback) ==
    [ address |-> NewAddress(reg) + 1, itemToMonitor |-> itemToMonitor,
      dataChangeCallback |-> dataChangeCallback, eventCallback |-> eventCallback,
      deleteCallback |-> deleteCallback ]

MonitoredItemContext(reg, itemToMonitor, dataChangeCallback, eventCallback, deleteCallback) ==
    [ address |-> NewAddress(reg), itemToMonitor |-> itemToMonitor,
      dataChangeCallback |-> dataChangeCallback, eventCallback |-> eventCallback,
      deleteCallback |-> deleteCallback ]

RevisedParameters(result) ==
    [ samplingInterval |-> result.revisedSamplingInterval,
      queueSize |-> result.revisedQueueSize ]

Thrown(statusCode, reg, parameters) ==
    [ status |-> statusCode, monitoredItems |-> reg, parameters |-> parameters,
      returned |-> 0 ]

\* Mutant: the context is never moved into the registry.
createMonitoredItemDataChangeClient_NoInsert(reg, subscriptionId, itemToMonitor, parameters, dataChangeCallback, deleteCallback, result) ==
    IF IsBad(result.statusCode)
    THEN Thrown(result.statusCode, reg, parameters)
    ELSE [ status |-> Good, monitoredItems |-> reg,
           parameters |-> RevisedParameters(result),
           returned |-> result.monitoredItemId ]

createMonitoredItemDataChangeClient(reg, subscriptionId, itemToMonitor, parameters, dataChangeCallback, deleteCallback, result) ==
    LET monitoredItemContext ==
            MonitoredItemContext(reg, itemToMonitor, dataChangeCallback, NoCallback,
                                 deleteCallback)
    IN  IF IsBad(result.statusCode)
        THEN Thrown(result.statusCode, reg, parameters)
        ELSE [ status |-> Good,
               monitoredItems |->
                   InsertOrAssign(reg, << subscriptionId, result.monitoredItemId >>,
                                  monitoredItemContext),
               parameters |-> RevisedParameters(result),
               returned |-> result.monitoredItemId ]

createMonitoredItemDataChangeServer(reg, itemToMonitor, parameters, dataChangeCallback, result) ==
    LET monitoredItemContext ==
            MonitoredItemContext(reg, itemToMonitor, dataChangeCallback, NoCallback,
                                 NoCallback)
    IN  IF IsBad(result.statusCode)
        THEN Thrown(result.statusCode, reg, parameters)
        ELSE [ status |-> Good,
               monitoredItems |->
                   InsertOrAssign(reg, result.monitoredItemId, monitoredItemContext),
               parameters |-> RevisedParameters(result),
               returned |-> result.monitoredItemId ]

\* Mutant: the context is put into the registry before the status is looked at.
createMonitoredItemEvent_InsertBeforeCheck(reg, subscriptionId, itemToMonitor, parameters, eventCallback, deleteCallback, result) ==
    LET inserted ==
            InsertOrAssign(reg, << subscriptionId, result.monitoredItemId >>,
                           MonitoredItemContext(reg, itemToMonitor, NoCallback, eventCallback,
                                                deleteCallback))
    IN  IF IsBad(result.statusCode)
        THEN Thrown(result.statusCode, inserted, parameters)
        ELSE [ status |-> Good, monitoredItems |-> inserted,
               parameters |-> RevisedParameters(result),
               returned |-> result.monitoredItemId ]

createMonitoredItemEvent(reg, subscriptionId, itemToMonitor, parameters, eventCallback, deleteCallback, result) ==
    LET monitoredItemContext ==
            MonitoredItemContext(reg, itemToMonitor, NoCallback, eventCallback,
                                 deleteCallback)
    IN  IF IsBad(result.statusCode)
        THEN Thrown(result.statusCode, reg, parameters)
        ELSE [ status |-> Good,
               monitoredItems |->
                   InsertOrAssign(reg, << subscriptionId, result.monitoredItemId >>,
                                  monitoredItemContext),
               parameters |-> RevisedParameters(result),
               returned |-> result.monitoredItemId ]

\* Mutant: only the revised sampling interval is written back.
modifyMonitoredItem_QueueSizeNotWrittenBack(reg, parameters, response) ==
    IF IsBad(response.serviceResult)
    THEN Thrown(response.serviceResult, reg, parameters)
    ELSE IF Len(response.results) # 1
    THEN Thrown("BadUnexpectedError", reg, parameters)
    ELSE IF IsBad(response.results[1].statusCode)
    THEN Thrown(response.results[1].statusCode, reg, parameters)
    ELSE [ status |-> Good, monitoredItems |-> reg,
           parameters |-> [ samplingInterval |-> response.results[1].revisedSamplingInterval,
                            queueSize |-> parameters.queueSize ],
           returned |-> 0 ]

\* Mutant: the revised values are written back before the item's status
\* is looked at.
modifyMonitoredItem_WriteBackBeforeStatusCheck(reg, parameters, response) ==
    IF IsBad(response.serviceResult)
    THEN Thrown(response.serviceResult, reg, parameters)
    ELSE IF Len(response.results) # 1
    THEN Thrown("BadUnexpectedError", reg, parameters)
    ELSE IF IsBad(response.results[1].statusCode)
    THEN Thrown(response.results[1].statusCode, reg, RevisedParameters(response.results[1]))
    ELSE [ status |-> Good, monitoredItems |-> reg,
           parameters |-> RevisedParameters(response.results[1]), returned |-> 0 ]

modifyMonitoredItem(reg, parameters, response) ==
    IF IsBad(response.serviceResult)
    THEN Thrown(response.serviceResult, reg, parameters)
    ELSE IF Len(response.results) # 1
    THEN Thrown("BadUnexpectedError", reg, parameters)
    ELSE IF IsBad(response.results[1].statusCode)
    THEN Thrown(response.results[1].statusCode, reg, parameters)
    ELSE [ status |-> Good, monitoredItems |-> reg,
           parameters |-> RevisedParameters(response.results[1]), returned |-> 0 ]

setMonitoringMode(response) ==
    IF IsBad(response.serviceResult)
    THEN response.serviceResult
    ELSE IF Len(response.results) # 1
    THEN "BadUnexpectedError"
    ELSE response.results[1]

\* for (i...) detail::throwOnBadStatus(results[i]): the first bad status of
\* the list is thrown, Good if there is none.
FirstBad(results) ==
    IF \E i \in 1..Len(results) : IsBad(results[i])
    THEN results[CHOOSE i \in 1..Len(results) :
                     /\ IsBad(results[i])
                     /\ \A j \in 1..(i - 1) : ~IsBad(results[j])]
    ELSE Good

\* setTriggering returns void: the caller receives nothing when it returns
\* and the one BadStatus thrown otherwise.
setTriggering(response) ==
    LET status == IF IsBad(response.serviceResult) THEN response.serviceResult
                  ELSE IF IsBad(FirstBad(response.addResults)) THEN FirstBad(response.addResults)
                  ELSE FirstBad(response.removeResults)
    IN  [ status |-> status,
          reported |-> IF IsBad(status) THEN << status >> ELSE << >> ]

\* Mutant: the status of the native delete is not looked at.
deleteMonitoredItemClient_StatusIgnored(afterNative, status) ==
    [ status |-> IF afterNative.exception THEN "UserException" ELSE Good,
      monitoredItems |-> afterNative.monitoredItems ]

\* afterNative is the dispatch state when UA_Client_MonitoredItems_deleteSingle
\* comes back; an exception of a user callback invoked inside it passes
\* through this function.
deleteMonitoredItemClient(afterNative, status) ==
    [ status |-> IF afterNative.exception THEN "UserException" ELSE status,
      monitoredItems |-> afterNative.monitoredItems ]

\* Mutant: the registry entry is not erased.
deleteMonitoredItemServer_NoErase(reg, monitoredItemId, status) ==
    [ status |-> status, monitoredItems |-> reg ]

deleteMonitoredItemServer(reg, monitoredItemId, status) ==
    IF IsBad(status)
    THEN [ status |-> status, monitoredItems |-> reg ]
    ELSE [ status |-> Good, monitoredItems |-> Erase(reg, monitoredItemId) ]

----------------------------------------------------------------------------
\* Subscription services and the pump (Subscription.cpp and Client/Server
\* runIterate are outside these sources; modelled from the specification).

UA_Client_Subscriptions_create ==
    IF lastSubscriptionId >= MaxSubscriptions
    THEN [statusCode |-> "BadTooManySubscriptions", subscriptionId |-> 0]
    ELSE [statusCode |-> Good, subscriptionId |-> lastSubscriptionId + 1]

\* Mutant: the stack answers the deletion of any subscription id with Good.
UA_Client_Subscriptions_deleteSingle_AlwaysGood(subscriptionId) == Good

UA_Client_Subscriptions_deleteSingle(subscriptionId) ==
    IF subscriptionId \in DOMAIN subscriptions THEN Good ELSE "BadSubscriptionIdInvalid"

UA_Client_Subscriptions_setPublishingMode(subscriptionId) ==
    IF subscriptionId \in DOMAIN subscriptions THEN Good ELSE "BadSubscriptionIdInvalid"

ItemsOf(map, subscriptionId) == {k \in DOMAIN map : k[1] = subscriptionId}

\* The keys of a set of client items in increasing item id order.
RECURSIVE InOrder(_)
InOrder(keys) ==
    IF keys = {}
    THEN << >>
    ELSE LET first == CHOOSE k \in keys : \A j \in keys : k[2] <= j[2]
         IN  << first >> \o InOrder(keys \ {first})

\* Mutant: only the entries whose delete-confirmation ran are gone.
deleteSubscription_NoErase(afterNative, subscriptionId, status) ==
    [ status |-> IF afterNative.exception THEN "UserException" ELSE status,
      monitoredItems |-> afterNative.monitoredItems ]

\* The stack drops the subscription and its items; it surfaces a
\* delete-confirmation for some of the items only.
deleteSubscription(afterNative, subscriptionId, status) ==
    IF afterNative.exception
    THEN [ status |-> "UserException", monitoredItems |-> afterNative.monitoredItems ]
    ELSE IF IsBad(status)
    THEN [ status |-> status, monitoredItems |-> afterNative.monitoredItems ]
    ELSE [ status |-> Good,
           monitoredItems |->
               [ k \in DOMAIN afterNative.monitoredItems
                        \ ItemsOf(afterNative.monitoredItems, subscriptionId)
                   |-> afterNative.monitoredItems[k] ] ]

\* What the stack may surface in one runIterate: a notification of an item
\* it reports (one whose deletion is not confirmed yet included), a
\* notification still in flight for an item it no longer knows, or a pending
\* delete-confirmation.
\* Mutant: the stack reports an item whatever its monitoring mode.
Reports_WhateverMode(key) ==
    /\ key \in DOMAIN nativeItems
    /\ role = "client" => subscriptions[key[1]].publishingEnabled

Reports(key) ==
    /\ key \in DOMAIN nativeItems
    /\ nativeItems[key].monitoringMode = "Reporting"
    /\ role = "client" => subscriptions[key[1]].publishingEnabled

Surfaced ==
    {[type |-> nativeItems[k].kind, key |-> k] : k \in {j \in DOMAIN nativeItems : Reports(j)}}
    \cup {[type |-> ty, key |-> k] : ty \in IF role = "server" THEN {"dataChange"}
                                             ELSE {"dataChange", "event"},
                                     k \in IssuedKeys \ DOMAIN nativeItems}
    \cup {[type |-> "delete", key |-> k] : k \in {j \in DOMAIN nativeItems : nativeItems[j].deleting}}

Batches == UNION {[1..n -> Surfaced] : n \in 1..MaxNotifications}

----------------------------------------------------------------------------
\* The state machine: one action per operation a caller can perform.

NoKey == IF role = "server" THEN 0 ELSE << 0, 0 >>

\* The keys for which a list of invoked callbacks holds a delete callback.
DeleteCalled(log) ==
    {ClientKey(log[i].subId, log[i].monId) : i \in {j \in 1..Len(log) : log[j].callback = "delete"}}

\* What the caller and the registry show of the operation just performed.
Observed(operation, key, status, nativeStatus, requested, parameters, revised, returned, regAfter, batch) ==
    [ operation |-> operation, key |-> key, status |-> status, batch |-> batch,
      nativeStatus |-> nativeStatus, requested |-> requested,
      parameters |-> parameters, revised |-> revised, returned |-> returned,
      unchanged |-> (regAfter = monitoredItems),
      hadEntry |-> key \in DOMAIN monitoredItems,
      wasDeleted |-> key \in deleted ]

\* Between two operations: the caller has taken the outcome of the last one.
Idle ==
    [ operation |-> "none", key |-> NoKey, status |-> Good, batch |-> << >>,
      nativeStatus |-> Good, requested |-> NoParameters,
      parameters |-> NoParameters, revised |-> NoParameters, returned |-> 0,
      unchanged |-> TRUE, hadEntry |-> FALSE, wasDeleted |-> FALSE ]

NoTriggering ==
    [ linksToAdd |-> << >>, linksToRemove |-> << >>, serviceResult |-> Good,
      results |-> << >>, reported |-> << >> ]

Init ==
    /\ role \in {"client", "server"}
    /\ monitoredItems = EmptyMap
    /\ subscriptions = EmptyMap
    /\ lastSubscriptionId = 0
    /\ nativeItems = EmptyMap
    /\ lastMonitoredItemId = [s \in 0..MaxSubscriptions |-> 0]
    /\ last = Idle
    /\ calls = << >>
    /\ erased = {}
    /\ deleted = {}
    /\ undefined = FALSE
    /\ triggering = NoTriggering
    /\ connected = TRUE
    /\ lastRequestId = 0
    /\ pendingAsyncCalls = EmptyMap
    /\ futures = EmptyMap
    /\ resolutions = EmptyMap
    /\ deleteCallbackCalls = {}

CreateSubscription ==
    /\ role = "client"
    /\ last = Idle
    /\ LET result == UA_Client_Subscriptions_create
       IN  /\ IF IsBad(result.statusCode)
              THEN UNCHANGED << subscriptions, lastSubscriptionId >>
              ELSE /\ subscriptions' = InsertOrAssign(subscriptions, result.subscriptionId, [publishingEnabled |-> TRUE])
                   /\ lastSubscriptionId' = result.subscriptionId
           /\ last' = Observed("createSubscription", << result.subscriptionId, 0 >>, result.statusCode, result.statusCode, NoParameters, NoParameters, NoParameters, result.subscriptionId, monitoredItems, << >>)
    /\ calls' = << >>
    /\ UNCHANGED << role, deleteCallbackCalls, asyncVars, triggering, monitoredItems, nativeItems, lastMonitoredItemId, erased, deleted, undefined >>

\* Server::createSubscription hands out the Server's one implicit
\* subscription, id 0; the native stack is not involved.
createSubscriptionServer == [status |-> Good, subscriptionId |-> 0]

CreateSubscriptionServer ==
    /\ role = "server"
    /\ last = Idle
    /\ last' = Observed("createSubscription", NoKey, createSubscriptionServer.status, Good, NoParameters, NoParameters, NoParameters, createSubscriptionServer.subscriptionId, monitoredItems, << >>)
    /\ calls' = << >>
    /\ UNCHANGED << role, deleteCallbackCalls, asyncVars, triggering, monitoredItems, subscriptions, lastSubscriptionId, nativeItems, lastMonitoredItemId, erased, deleted, undefined >>

SetPublishingMode ==
    /\ role = "client"
    /\ last = Idle
    /\ \E subscriptionId \in SubscriptionIds, publishing \in BOOLEAN :
         LET status == UA_Client_Subscriptions_setPublishingMode(subscriptionId)
         IN  /\ subscriptions' = IF IsBad(status) THEN subscriptions
                                 ELSE [subscriptions EXCEPT ![subscriptionId].publishingEnabled = publishing]
             /\ last' = Observed("setPublishingMode", << subscriptionId, 0 >>, status, status, NoParameters, NoParameters, NoParameters, 0, monitoredItems, << >>)
    /\ calls' = << >>
    /\ UNCHANGED << role, deleteCallbackCalls, asyncVars, triggering, monitoredItems, lastSubscriptionId, nativeItems, lastMonitoredItemId, erased, deleted, undefined >>

DeleteSubscription ==
    /\ role = "client"
    /\ last = Idle
    /\ \E subscriptionId \in SubscriptionIds :
         LET status == UA_Client_Subscriptions_deleteSingle(subscriptionId)
         IN  \E confirmed \in SUBSET (IF IsBad(status) THEN {} ELSE ItemsOf(nativeItems, subscriptionId)) :
               LET afterNative == RunCallbacks(DispatchState(monitoredItems, nativeItems, erased), [i \in 1..Cardinality(confirmed) |-> [type |-> "delete", key |-> InOrder(confirmed)[i]]])
                   out == deleteSubscription(afterNative, subscriptionId, status)
               IN  /\ monitoredItems' = out.monitoredItems
                   /\ subscriptions' = IF IsBad(status) THEN subscriptions ELSE Erase(subscriptions, subscriptionId)
                   /\ nativeItems' = IF IsBad(status) THEN nativeItems
                                     ELSE [k \in DOMAIN nativeItems \ ItemsOf(nativeItems, subscriptionId) |-> nativeItems[k]]
                   /\ erased' = erased \cup (DOMAIN monitoredItems \ DOMAIN out.monitoredItems)
                   /\ calls' = afterNative.calls
                   /\ deleteCallbackCalls' = deleteCallbackCalls \cup DeleteCalled(afterNative.calls)
                   /\ undefined' = (undefined \/ afterNative.undefined)
                   /\ last' = Observed("deleteSubscription", << subscriptionId, 0 >>, out.status, status, NoParameters, NoParameters, NoParameters, 0, out.monitoredItems, << >>)
    /\ UNCHANGED << role, asyncVars, triggering, lastSubscriptionId, lastMonitoredItemId, deleted >>

CreateMonitoredItemDataChangeClient ==
    /\ role = "client"
    /\ last = Idle
    /\ \E subscriptionId \in SubscriptionIds, itemToMonitor \in Nodes, monitoringMode \in MonitoringModes, parameters \in ParameterChoices, callbacks \in CallbackChoices :
         \E result \in UA_Client_MonitoredItems_create(subscriptionId, itemToMonitor, parameters) :
           LET out == createMonitoredItemDataChangeClient(monitoredItems, subscriptionId, itemToMonitor, parameters, callbacks.notification, callbacks.delete, result)
               key == ClientKey(subscriptionId, result.monitoredItemId)
           IN  /\ monitoredItems' = out.monitoredItems
               /\ IF IsBad(result.statusCode)
                  THEN UNCHANGED << nativeItems, lastMonitoredItemId >>
                  ELSE /\ nativeItems' = InsertOrAssign(nativeItems, key, NativeItem(NewAddress(monitoredItems), "dataChange", monitoringMode))
                       /\ lastMonitoredItemId' = [lastMonitoredItemId EXCEPT ![subscriptionId] = result.monitoredItemId]
               /\ last' = Observed("createMonitoredItemDataChange", key, out.status, result.statusCode, parameters, out.parameters, RevisedParameters(result), out.returned, out.monitoredItems, << >>)
    /\ calls' = << >>
    /\ UNCHANGED << role, deleteCallbackCalls, asyncVars, triggering, subscriptions, lastSubscriptionId, erased, deleted, undefined >>

CreateMonitoredItemEvent ==
    /\ role = "client"
    /\ last = Idle
    /\ \E subscriptionId \in SubscriptionIds, itemToMonitor \in Nodes, monitoringMode \in MonitoringModes, parameters \in ParameterChoices, callbacks \in CallbackChoices :
         \E result \in UA_Client_MonitoredItems_create(subscriptionId, itemToMonitor, parameters) :
           LET out == createMonitoredItemEvent(monitoredItems, subscriptionId, itemToMonitor, parameters, callbacks.notification, callbacks.delete, result)
               key == ClientKey(subscriptionId, result.monitoredItemId)
           IN  /\ monitoredItems' = out.monitoredItems
               /\ IF IsBad(result.statusCode)
                  THEN UNCHANGED << nativeItems, lastMonitoredItemId >>
                  ELSE /\ nativeItems' = InsertOrAssign(nativeItems, key, NativeItem(NewAddress(monitoredItems), "event", monitoringMode))
                       /\ lastMonitoredItemId' = [lastMonitoredItemId EXCEPT ![subscriptionId] = result.monitoredItemId]
               /\ last' = Observed("createMonitoredItemEvent", key, out.status, result.statusCode, parameters, out.parameters, RevisedParameters(result), out.returned, out.monitoredItems, << >>)
    /\ calls' = << >>
    /\ UNCHANGED << role, deleteCallbackCalls, asyncVars, triggering, subscriptions, lastSubscriptionId, erased, deleted, undefined >>

CreateMonitoredItemDataChangeServer ==
    /\ role = "server"
    /\ last = Idle
    /\ \E itemToMonitor \in Nodes, monitoringMode \in MonitoringModes, parameters \in ParameterChoices, callbacks \in CallbackChoices :
         \E result \in UA_Server_createDataChangeMonitoredItem(itemToMonitor, parameters) :
           LET out == createMonitoredItemDataChangeServer(monitoredItems, itemToMonitor, parameters, callbacks.notification, result)
               key == result.monitoredItemId
           IN  /\ monitoredItems' = out.monitoredItems
               /\ IF IsBad(result.statusCode)
                  THEN UNCHANGED << nativeItems, lastMonitoredItemId >>
                  ELSE /\ nativeItems' = InsertOrAssign(nativeItems, key, NativeItem(NewAddress(monitoredItems), "dataChange", monitoringMode))
                       /\ lastMonitoredItemId' = [lastMonitoredItemId EXCEPT ![0] = result.monitoredItemId]
               /\ last' = Observed("createMonitoredItemDataChange", key, out.status, result.statusCode, parameters, out.parameters, RevisedParameters(result), out.returned, out.monitoredItems, << >>)
    /\ calls' = << >>
    /\ UNCHANGED << role, deleteCallbackCalls, asyncVars, triggering, subscriptions, lastSubscriptionId, erased, deleted, undefined >>

ModifyMonitoredItem ==
    /\ role = "client"
    /\ last = Idle
    /\ \E subscriptionId \in SubscriptionIds, monitoredItemId \in MonitoredItemIds, parameters \in ParameterChoices :
         \E response \in UA_Client_MonitoredItems_modify(subscriptionId, monitoredItemId, parameters) :
           LET out == modifyMonitoredItem(monitoredItems, parameters, response)
               nativeStatus == IF IsBad(response.serviceResult) \/ Len(response.results) # 1 THEN response.serviceResult ELSE response.results[1].statusCode
               revised == IF Len(response.results) = 1 THEN RevisedParameters(response.results[1]) ELSE NoParameters
           IN  /\ monitoredItems' = out.monitoredItems
               /\ last' = Observed("modifyMonitoredItem", ClientKey(subscriptionId, monitoredItemId), out.status, nativeStatus, parameters, out.parameters, revised, 0, out.monitoredItems, << >>)
    /\ calls' = << >>
    /\ UNCHANGED << role, deleteCallbackCalls, asyncVars, triggering, subscriptions, lastSubscriptionId, nativeItems, lastMonitoredItemId, erased, deleted, undefined >>

SetMonitoringMode ==
    /\ role = "client"
    /\ last = Idle
    /\ \E subscriptionId \in SubscriptionIds, monitoredItemId \in MonitoredItemIds, monitoringMode \in MonitoringModes :
         \E response \in UA_Client_MonitoredItems_setMonitoringMode(subscriptionId, monitoredItemId) :
           LET status == setMonitoringMode(response)
               key == ClientKey(subscriptionId, monitoredItemId)
               applied == ~IsBad(response.serviceResult) /\ response.results = << Good >>
           IN  /\ nativeItems' = IF applied THEN [nativeItems EXCEPT ![key].monitoringMode = monitoringMode, ![key].switched = (@ \/ nativeItems[key].monitoringMode # monitoringMode)] ELSE nativeItems
               /\ last' = Observed("setMonitoringMode", key, status, IF Len(response.results) = 1 THEN response.results[1] ELSE response.serviceResult, NoParameters, NoParameters, NoParameters, 0, monitoredItems, << >>)
    /\ calls' = << >>
    /\ UNCHANGED << role, deleteCallbackCalls, asyncVars, triggering, monitoredItems, subscriptions, lastSubscriptionId, lastMonitoredItemId, erased, deleted, undefined >>

SetTriggering ==
    /\ role = "client"
    /\ last = Idle
    /\ \E subscriptionId \in SubscriptionIds, triggeringItemId \in MonitoredItemIds, linksToAdd \in Links, linksToRemove \in Links :
         LET response == UA_Client_MonitoredItems_setTriggering(subscriptionId, triggeringItemId, linksToAdd, linksToRemove)
             out == setTriggering(response)
         IN  /\ triggering' = [ linksToAdd |-> linksToAdd, linksToRemove |-> linksToRemove, serviceResult |-> response.serviceResult, results |-> response.addResults \o response.removeResults, reported |-> out.reported ]
             /\ last' = Observed("setTriggering", ClientKey(subscriptionId, triggeringItemId), out.status, response.serviceResult, NoParameters, NoParameters, NoParameters, 0, monitoredItems, << >>)
    /\ calls' = << >>
    /\ UNCHANGED << role, deleteCallbackCalls, asyncVars, monitoredItems, subscriptions, lastSubscriptionId, nativeItems, lastMonitoredItemId, erased, deleted, undefined >>

DeleteMonitoredItemClient ==
    /\ role = "client"
    /\ last = Idle
    /\ \E subscriptionId \in SubscriptionIds, monitoredItemId \in MonitoredItemIds :
         \E answer \in UA_Client_MonitoredItems_deleteSingle(subscriptionId, monitoredItemId) :
           LET key == ClientKey(subscriptionId, monitoredItemId)
               pending == IF IsBad(answer.statusCode) THEN nativeItems ELSE [nativeItems EXCEPT ![key].deleting = TRUE]
               afterNative == RunCallbacks(DispatchState(monitoredItems, pending, erased), IF answer.confirmed THEN << [type |-> "delete", key |-> key] >> ELSE << >>)
               out == deleteMonitoredItemClient(afterNative, answer.statusCode)
           IN  /\ monitoredItems' = out.monitoredItems
               /\ nativeItems' = afterNative.nativeItems
               /\ erased' = afterNative.erased
               /\ deleted' = IF out.status = Good THEN deleted \cup {key} ELSE deleted
               /\ calls' = afterNative.calls
               /\ deleteCallbackCalls' = deleteCallbackCalls \cup DeleteCalled(afterNative.calls)
               /\ undefined' = (undefined \/ afterNative.undefined)
               /\ last' = Observed("deleteMonitoredItem", key, out.status, answer.statusCode, NoParameters, NoParameters, NoParameters, 0, out.monitoredItems, << >>)
    /\ UNCHANGED << role, asyncVars, triggering, subscriptions, lastSubscriptionId, lastMonitoredItemId >>

DeleteMonitoredItemServer ==
    /\ role = "server"
    /\ last = Idle
    /\ \E monitoredItemId \in MonitoredItemIds :
         LET status == UA_Server_deleteMonitoredItem(monitoredItemId)
             out == deleteMonitoredItemServer(monitoredItems, monitoredItemId, status)
         IN  /\ monitoredItems' = out.monitoredItems
             /\ nativeItems' = IF IsBad(status) THEN nativeItems ELSE Erase(nativeItems, monitoredItemId)
             /\ erased' = erased \cup (DOMAIN monitoredItems \ DOMAIN out.monitoredItems)
             /\ deleted' = IF out.status = Good THEN deleted \cup {monitoredItemId} ELSE deleted
             /\ last' = Observed("deleteMonitoredItem", monitoredItemId, out.status, status, NoParameters, NoParameters, NoParameters, 0, out.monitoredItems, << >>)
    /\ calls' = << >>
    /\ UNCHANGED << role, deleteCallbackCalls, asyncVars, triggering, subscriptions, lastSubscriptionId, lastMonitoredItemId, undefined >>

\* Client::runIterate / Server::runIterate: the stack surfaces a batch of
\* callbacks; an exception of a user callback ends the call.
RunIterate ==
    /\ last = Idle
    /\ \E batch \in Batches :
         LET after == RunCallbacks(DispatchState(monitoredItems, nativeItems, erased), batch)
         IN  /\ monitoredItems' = after.monitoredItems
             /\ nativeItems' = after.nativeItems
             /\ erased' = after.erased
             /\ calls' = after.calls
             /\ deleteCallbackCalls' = deleteCallbackCalls \cup DeleteCalled(after.calls)
             /\ undefined' = (undefined \/ after.undefined)
             /\ last' = Observed("runIterate", NoKey, IF after.exception THEN "UserException" ELSE Good, Good, NoParameters, NoParameters, NoParameters, 0, after.monitoredItems, batch)
    /\ UNCHANGED << role, asyncVars, triggering, subscriptions, lastSubscriptionId, lastMonitoredItemId, deleted >>

\* The caller takes the outcome of the operation and goes on.
Return ==
    /\ last # Idle
    /\ last' = Idle
    /\ calls' = << >>
    /\ triggering' = NoTriggering
    /\ UNCHANGED << role, deleteCallbackCalls, asyncVars, monitoredItems, subscriptions, lastSubscriptionId, nativeItems, lastMonitoredItemId, erased, deleted, undefined >>

Next ==
    \/ CreateSubscription
    \/ CreateSubscriptionServer
    \/ SetPublishingMode
    \/ DeleteSubscription
    \/ CreateMonitoredItemDataChangeClient
    \/ CreateMonitoredItemEvent
    \/ CreateMonitoredItemDataChangeServer
    \/ ModifyMonitoredItem
    \/ SetMonitoringMode
    \/ SetTriggering
    \/ DeleteMonitoredItemClient
    \/ DeleteMonitoredItemServer
    \/ RunIterate
    \/ Return

Spec == Init /\ [][Next]_vars

\* The operations on monitored items alone: every subscription lives on.
NextMonitoredItems ==
    \/ CreateSubscription
    \/ CreateSubscriptionServer
    \/ SetPublishingMode
    \/ CreateMonitoredItemDataChangeClient
    \/ CreateMonitoredItemEvent
    \/ CreateMonitoredItemDataChangeServer
    \/ ModifyMonitoredItem
    \/ SetMonitoringMode
    \/ SetTriggering
    \/ DeleteMonitoredItemClient
    \/ DeleteMonitoredItemServer
    \/ RunIterate
    \/ Return

MonitoredItemSpec == Init /\ [][NextMonitoredItems]_vars

\* The delete-confirmation adapter applied to a confirmation that carries
\* nullptr as context, for any key.
DeleteConfirmationWithoutContext ==
    /\ role = "client"
    /\ last = Idle
    /\ \E key \in SubscriptionIds \X MonitoredItemIds :
         LET after == deleteMonitoredItemCallback(DispatchState(monitoredItems, Erase(nativeItems, key), erased), key[1], key[2], Null)
         IN  /\ monitoredItems' = after.monitoredItems
             /\ nativeItems' = after.nativeItems
             /\ erased' = after.erased
             /\ calls' = after.calls
             /\ deleteCallbackCalls' = deleteCallbackCalls \cup DeleteCalled(after.calls)
             /\ undefined' = (undefined \/ after.undefined)
             /\ last' = Observed("deleteConfirmation", key, IF after.exception THEN "UserException" ELSE Good, Good, NoParameters, NoParameters, NoParameters, 0, after.monitoredItems, << [type |-> "delete", key |-> key] >>)
    /\ UNCHANGED << role, asyncVars, triggering, subscriptions, lastSubscriptionId, lastMonitoredItemId, deleted >>

NextDeleteConfirmation ==
    \/ Next
    \/ DeleteConfirmationWithoutContext

DeleteConfirmationSpec == Init /\ [][NextDeleteConfirmation]_vars

\* The pump is called again and again on a value that keeps changing: a
\* pump cycle in which the stack surfaces exactly one data-change
\* notification of the reporting item under `key`.
PumpClientItem(key) ==
    /\ role = "client"
    /\ Reports(key)
    /\ RunIterate
    /\ last'.batch = << [type |-> "dataChange", key |-> key] >>

PumpServerItem(monitoredItemId) ==
    /\ role = "server"
    /\ Reports(monitoredItemId)
    /\ RunIterate
    /\ last'.batch = << [type |-> "dataChange", key |-> monitoredItemId] >>

\* The monitoring scenario: subscriptions and data-change items on the
\* changing value are created with one choice of parameters, their modes
\* are switched, a Server's items are deleted, and the pump runs.
OnChangingValue ==
    /\ last'.requested = [samplingInterval |-> 250, queueSize |-> 2]
    /\ last'.nativeStatus # "BadNodeIdUnknown"

NextPumping ==
    \/ CreateSubscription
    \/ SetPublishingMode
    \/ CreateMonitoredItemDataChangeClient /\ OnChangingValue
    \/ CreateMonitoredItemDataChangeServer /\ OnChangingValue
    \/ SetMonitoringMode
    \/ DeleteMonitoredItemServer
    \/ RunIterate
    \/ Return

\* The caller always comes back from an operation, and keeps pumping.
PumpingSpec ==
    /\ Init /\ [][NextPumping]_vars
    /\ WF_vars(Return)
    /\ \A key \in SubscriptionIds \X MonitoredItemIds : SF_vars(PumpClientItem(key))
    /\ \A monitoredItemId \in MonitoredItemIds : SF_vars(PumpServerItem(monitoredItemId))

----------------------------------------------------------------------------
\* Asynchronous calls (services::callAsync; the coordinator is outside these
\* sources and modelled from the specification).  A call is submitted with
\* a correlation token, the pump consumes responses and fulfils the promise
\* of the matching entry, teardown completes what is still outstanding.

\* The method of the test: "Add" returns the sum, or throws when told to.
Requests == {"Add", "AddThrowing"}

CallMethodResult(request) ==
    IF request = "Add"
    THEN [statusCode |-> Good, output |-> "sum"]
    ELSE [statusCode |-> "BadUnexpectedError", output |-> "none"]

ConnectionClosed == [statusCode |-> "BadConnectionClosed", output |-> "none"]

Pending == [state |-> "pending", result |-> [statusCode |-> Good, output |-> "none"]]

AsyncState(pending, futs, res) ==
    [ pendingAsyncCalls |-> pending, futures |-> futs, resolutions |-> res ]

\* submit: store a PendingAsyncCall under the token, hand out its future.
submit(a, token, request) ==
    [ pendingAsyncCalls |-> InsertOrAssign(a.pendingAsyncCalls, token, request),
      futures |-> InsertOrAssign(a.futures, token, Pending),
      resolutions |-> InsertOrAssign(a.resolutions, token, 0) ]

\* Mutant: the promise is completed but the entry is kept.
resolve_EntryKept(a, token, result) ==
    IF token \notin DOMAIN a.pendingAsyncCalls
    THEN a
    ELSE [ a EXCEPT !.futures[token] = [state |-> "ready", result |-> result],
                    !.resolutions[token] = @ + 1 ]

\* Look up the token, complete the promise of its entry, discard the entry.
resolve(a, token, result) ==
    IF token \notin DOMAIN a.pendingAsyncCalls
    THEN a
    ELSE [ a EXCEPT !.pendingAsyncCalls = Erase(@, token),
                    !.futures[token] = [state |-> "ready", result |-> result],
                    !.resolutions[token] = @ + 1 ]

\* The responses consumed by one pump cycle, in increasing token order.
RECURSIVE consume(_, _)
consume(a, tokens) ==
    IF tokens = {}
    THEN a
    ELSE LET token == CHOOSE x \in tokens : \A y \in tokens : x <= y
         IN  consume(resolve(a, token, CallMethodResult(a.pendingAsyncCalls[token])),
                     tokens \ {token})

\* Mutant: teardown drops the entries without completing their promises.
cancelAll_PromisesDropped(a, tokens) ==
    [ a EXCEPT !.pendingAsyncCalls = EmptyMap ]

\* Teardown: every remaining promise is completed with connection-closed.
RECURSIVE cancelAll(_, _)
cancelAll(a, tokens) ==
    IF tokens = {}
    THEN a
    ELSE LET token == CHOOSE x \in tokens : \A y \in tokens : x <= y
         IN  cancelAll(resolve(a, token, ConnectionClosed), tokens \ {token})

CallAsync ==
    /\ role = "client"
    /\ connected
    /\ lastRequestId < MaxAsyncCalls
    /\ \E request \in Requests :
         LET a == submit(AsyncState(pendingAsyncCalls, futures, resolutions), lastRequestId + 1, request)
         IN  /\ pendingAsyncCalls' = a.pendingAsyncCalls
             /\ futures' = a.futures
             /\ resolutions' = a.resolutions
    /\ lastRequestId' = lastRequestId + 1
    /\ UNCHANGED << role, deleteCallbackCalls, connected, monitoredItems, subscriptions, lastSubscriptionId, nativeItems, lastMonitoredItemId, last, calls, erased, deleted, undefined, triggering >>

\* A pump cycle in which the responses of some outstanding calls arrive.
RunIterateAsync ==
    /\ role = "client"
    /\ connected
    /\ \E arrived \in SUBSET DOMAIN pendingAsyncCalls :
         LET a == consume(AsyncState(pendingAsyncCalls, futures, resolutions), arrived)
         IN  /\ arrived # {}
             /\ pendingAsyncCalls' = a.pendingAsyncCalls
             /\ futures' = a.futures
             /\ resolutions' = a.resolutions
    /\ UNCHANGED << role, deleteCallbackCalls, connected, lastRequestId, monitoredItems, subscriptions, lastSubscriptionId, nativeItems, lastMonitoredItemId, last, calls, erased, deleted, undefined, triggering >>

\* Connection teardown (disconnect, or the Client going away).
Disconnect ==
    /\ role = "client"
    /\ connected
    /\ connected' = FALSE
    /\ LET a == cancelAll(AsyncState(pendingAsyncCalls, futures, resolutions), DOMAIN pendingAsyncCalls)
       IN  /\ pendingAsyncCalls' = a.pendingAsyncCalls
           /\ futures' = a.futures
           /\ resolutions' = a.resolutions
    /\ UNCHANGED << role, deleteCallbackCalls, lastRequestId, monitoredItems, subscriptions, lastSubscriptionId, nativeItems, lastMonitoredItemId, last, calls, erased, deleted, undefined, triggering >>

NextAsync ==
    \/ CallAsync
    \/ RunIterateAsync
    \/ Disconnect

\* Every connection is torn down in the end.
AsyncSpec == Init /\ [][NextAsync]_vars /\ WF_vars(Disconnect)

----------------------------------------------------------------------------
\* Properties.

IsCreate(operation) ==
    operation \in {"createMonitoredItemDataChange", "createMonitoredItemEvent"}

\* The key under which the id returned by the last create call is registered.
ReturnedKey == IF role = "server" THEN last.returned ELSE ClientKey(last.key[1], last.returned)

\* C1: after a successful createMonitoredItemDataChange (client with its
\* subscription id, or server) the registry holds exactly one entry under
\* the returned monitored item id (paired with the subscription id for the
\* client), an entry the call has just put there.
C1_CreatedIdRegisteredOnce ==
    (last.operation = "createMonitoredItemDataChange" /\ last.status = Good) =>
        /\ last.returned # 0
        /\ Cardinality({k \in DOMAIN monitoredItems : k = ReturnedKey}) = 1
        /\ ~last.unchanged

C1_Witness ==
    /\ role = "client"
    /\ last.operation = "createMonitoredItemDataChange"
    /\ last.status = Good
    /\ last.returned = 2
    /\ Cardinality(DOMAIN monitoredItems) = 2

\* C2: a monitored item key is known to the native stack exactly if the
\* registry holds a context under that key.
C2_RegistryAgreesWithNativeStack ==
    DOMAIN nativeItems = DOMAIN monitoredItems

\* C3: when the native stack answers a creation (data change or event,
\* either role) with a non-good status, the call fails with that status and
\* the registry is as it was before the call.
C3_RejectedCreateCommitsNothing ==
    (IsCreate(last.operation) /\ last.nativeStatus # Good) =>
        /\ last.status = last.nativeStatus
        /\ last.unchanged

C3_Witness ==
    /\ last.operation = "createMonitoredItemEvent"
    /\ last.nativeStatus = "BadNodeIdUnknown"
    /\ DOMAIN monitoredItems # {}

\* C4 as stated: deleting a client item again after a successful deletion
\* fails with BadMonitoredItemIdInvalid, leaves the registry unchanged and
\* invokes no callback.
C4_SecondDeleteFailsItemIdInvalid ==
    (role = "client" /\ last.operation = "deleteMonitoredItem" /\ last.wasDeleted) =>
        /\ last.status = "BadMonitoredItemIdInvalid"
        /\ last.unchanged
        /\ calls = << >>

\* C4 amended: the second deletion fails with BadMonitoredItemIdInvalid, or
\* with BadSubscriptionIdInvalid when the subscription has been deleted in
\* between; it leaves the registry unchanged and invokes no callback.
C4_SecondDeleteFails ==
    (role = "client" /\ last.operation = "deleteMonitoredItem" /\ last.wasDeleted) =>
        /\ last.status = IF last.key[1] \in DOMAIN subscriptions
                         THEN "BadMonitoredItemIdInvalid"
                         ELSE "BadSubscriptionIdInvalid"
        /\ last.unchanged
        /\ calls = << >>

C4_Witness ==
    /\ role = "client"
    /\ last.operation = "deleteMonitoredItem"
    /\ last.wasDeleted
    /\ last.status = "BadMonitoredItemIdInvalid"
    /\ DOMAIN monitoredItems # {}

\* C5: whenever the delete-confirmation invokes a stored delete callback,
\* the registry still holds the context under (subscription id, monitored
\* item id) while the callback runs.
C5_DeleteCallbackBeforeErase ==
    \A i \in 1..Len(calls) :
        calls[i].callback = "delete" =>
            /\ calls[i].registered
            /\ calls[i].owner = ClientKey(calls[i].subId, calls[i].monId)

C5_Witness ==
    /\ Len(calls) = 1
    /\ calls[1].callback = "delete"
    /\ last.status = Good
    /\ ClientKey(calls[1].subId, calls[1].monId) \notin DOMAIN monitoredItems

\* C6: when deleteSubscription returns, the registry holds no entry under
\* that subscription id, however many items the subscription owned.
C6_DeleteSubscriptionErasesItems ==
    (last.operation = "deleteSubscription" /\ last.status = Good) =>
        ItemsOf(monitoredItems, last.key[1]) = {}

C6_Witness ==
    /\ last.operation = "deleteSubscription"
    /\ last.status = Good
    /\ calls = << >>
    /\ deleted = {}
    /\ Cardinality(erased) = 2
    /\ DOMAIN monitoredItems = {}

\* C7: no data-change or event callback is invoked for a monitored item
\* whose registry entry a deletion has erased; a notification surfaced for
\* such an item is dropped without reading a dead context.
C7_NoNotificationAfterErase ==
    /\ ~undefined
    /\ \A i \in 1..Len(calls) :
           calls[i].callback \in {"dataChange", "event"} => ~calls[i].afterErase

C7_Witness ==
    /\ last.operation = "runIterate"
    /\ Len(last.batch) = 2
    /\ last.batch[1].type = "dataChange"
    /\ last.batch[1].key \in erased
    /\ last.batch[2].key \notin erased
    /\ Len(calls) = 1
    /\ calls[1].callback = "dataChange"

\* A pump cycle in which every callback surfaced is a notification that
\* comes with nullptr or for a key the registry does not hold.
OnlyNullOrUnknown ==
    /\ last.operation = "runIterate"
    /\ \A i \in 1..Len(last.batch) :
           /\ last.batch[i].type # "delete"
           /\ \/ NativeContext(nativeItems, last.batch[i].key) = Null
              \/ last.batch[i].key \notin DOMAIN monitoredItems

C9_ServerDeleteErasesInCall ==
    (role = "server" /\ last.operation = "deleteMonitoredItem" /\ last.status = Good) =>
        last.key \notin DOMAIN monitoredItems

C9_Witness ==
    /\ role = "server"
    /\ last.operation = "deleteMonitoredItem"
    /\ last.status = Good
    /\ last.hadEntry
    /\ DOMAIN monitoredItems # {}

\* C10: after a successful create (data change, event) or modify, the
\* caller's samplingInterval and queueSize are the revised values the peer
\* returned, whether or not they differ from the requested ones.
C10_RevisedParametersWrittenBack ==
    ((IsCreate(last.operation) \/ last.operation = "modifyMonitoredItem") /\ last.status = Good) =>
        /\ last.parameters.samplingInterval = last.revised.samplingInterval
        /\ last.parameters.queueSize = last.revised.queueSize

C10_Witness ==
    /\ last.operation = "modifyMonitoredItem"
    /\ last.status = Good
    /\ last.revised.samplingInterval # last.requested.samplingInterval
    /\ last.revised.queueSize # last.requested.queueSize
    /\ last.parameters = last.revised

\* C11: setTriggering with N links to add and M links to remove, some of them
\* naming invalid monitored item ids, reports N+M per-link statuses to the
\* caller, the invalid links failed and the valid ones succeeded.
C11_PerLinkStatusesReported ==
    (/\ last.operation = "setTriggering"
     /\ triggering.serviceResult = Good
     /\ \E i \in 1..Len(triggering.results) : triggering.results[i] # Good) =>
        /\ Len(triggering.reported) = Len(triggering.linksToAdd) + Len(triggering.linksToRemove)
        /\ triggering.reported = triggering.results

\* A notification of the last pump cycle that has a user callback to invoke:
\* the stack holds a context for its item and the callback stored for that
\* kind of notification is not empty.
HasCallback(e) ==
    /\ e.type # "delete"
    /\ e.key \in DOMAIN nativeItems
    /\ e.key \in DOMAIN monitoredItems
    /\ monitoredItems[e.key][IF e.type = "event" THEN "eventCallback" ELSE "dataChangeCallback"] # NoCallback

\* C12: an error raised by a user notification or delete callback does not
\* leave the dispatcher: no operation ends with the user's exception, a
\* delete-confirmation erases its registry entry also when its delete
\* callback raises, and the other notifications of the pump cycle are
\* still dispatched.
C12_CallbackErrorsCaught ==
    /\ last.status # "UserException"
    /\ \A i \in 1..Len(calls) :
           calls[i].callback = "delete" =>
               ClientKey(calls[i].subId, calls[i].monId) \notin DOMAIN monitoredItems
    /\ (last.operation = "runIterate" /\ \A i \in 1..Len(last.batch) : HasCallback(last.batch[i])) =>
           Len(calls) = Len(last.batch)

\* C13: no data-change callback is invoked for a client monitored item in
\* a pump cycle in which its monitoring mode is Disabled or Sampling or the
\* publishing mode of its subscription is disabled; setPublishingMode leaves
\* the monitoring mode of every item as it was.
C13_NoCallbackUnlessReporting ==
    /\ [](\A i \in 1..Len(calls) :
            (role = "client" /\ calls[i].callback = "dataChange") =>
                /\ calls[i].monitoringMode = "Reporting"
                /\ calls[i].publishingEnabled)
    /\ [][last'.operation = "setPublishingMode" =>
            /\ DOMAIN nativeItems' = DOMAIN nativeItems
            /\ \A k \in DOMAIN nativeItems :
                   nativeItems'[k].monitoringMode = nativeItems[k].monitoringMode]_vars

\* A pump cycle that invokes the callback of a reporting item while another
\* item with a callback is not reporting.
C13_Witness ==
    /\ role = "client"
    /\ last.operation = "runIterate"
    /\ Len(calls) = Len(last.batch)
    /\ \A i \in 1..Len(calls) : calls[i].callback = "dataChange"
    /\ \E k \in DOMAIN nativeItems :
           /\ nativeItems[k].monitoringMode \in {"Disabled", "Sampling"}
           /\ k \in DOMAIN monitoredItems
           /\ monitoredItems[k].dataChangeCallback = "returns"

\* A live data-change item with a callback whose monitoring mode is
\* Reporting while publishing is enabled.
ReportingClientItem(key) ==
    /\ role = "client"
    /\ key \in DOMAIN monitoredItems
    /\ NativeKnows(key)
    /\ nativeItems[key].kind = "dataChange"
    /\ Reports(key)
    /\ monitoredItems[key].dataChangeCallback # NoCallback

ReportingServerItem(monitoredItemId) ==
    /\ role = "server"
    /\ monitoredItemId \in DOMAIN monitoredItems
    /\ NativeKnows(monitoredItemId)
    /\ Reports(monitoredItemId)
    /\ monitoredItems[monitoredItemId].dataChangeCallback # NoCallback

Invoked(subId, monId) ==
    \E i \in 1..Len(calls) :
        /\ calls[i].callback = "dataChange"
        /\ calls[i].subId = subId
        /\ calls[i].monId = monId

\* C14: a live item on a changing value whose monitoring mode is Reporting
\* (publishing enabled) has its data-change callback invoked eventually
\* when the pump keeps being called, unless it stops reporting first; this
\* holds for an item created in Reporting mode and for one switched to it.
C14_ReportingItemEventuallyNotified ==
    /\ \A key \in SubscriptionIds \X MonitoredItemIds :
           ReportingClientItem(key) ~> (Invoked(key[1], key[2]) \/ ~ReportingClientItem(key))
    /\ \A monitoredItemId \in MonitoredItemIds :
           ReportingServerItem(monitoredItemId) ~>
               (Invoked(0, monitoredItemId) \/ ~ReportingServerItem(monitoredItemId))

\* The callback of an item that was switched to Reporting by
\* setMonitoringMode is invoked in a pump cycle.
C14_Witness ==
    /\ role = "client"
    /\ last.operation = "runIterate"
    /\ Len(calls) = 1
    /\ calls[1].callback = "dataChange"
    /\ ClientKey(calls[1].subId, calls[1].monId) \in DOMAIN nativeItems
    /\ nativeItems[ClientKey(calls[1].subId, calls[1].monId)].switched
    /\ ReportingClientItem(ClientKey(calls[1].subId, calls[1].monId))

\* C15: a user callback is invoked only for its own monitored item: the ids
\* it is passed are the key under which the registry holds the context the
\* callback was read from (the id the create call returned, with the owning
\* subscription's id for a Client and 0 for a Server), and different live
\* items have different keys and different contexts.
C15_CallbackGetsOwnIds ==
    /\ \A i \in 1..Len(calls) :
           IF role = "server"
           THEN calls[i].subId = 0 /\ calls[i].owner = calls[i].monId
           ELSE calls[i].owner = ClientKey(calls[i].subId, calls[i].monId)
    /\ \A j, k \in DOMAIN monitoredItems :
           j # k => monitoredItems[j].address # monitoredItems[k].address

\* One pump cycle notifies two items of one subscription.
C15_Witness ==
    /\ role = "client"
    /\ last.operation = "runIterate"
    /\ Len(calls) = 2
    /\ calls[1].subId = calls[2].subId
    /\ calls[1].monId # calls[2].monId
    /\ calls[1].callback = "dataChange"
    /\ calls[2].callback = "dataChange"

\* C16: the context address handed to the native stack at creation is the
\* address of the context the registry stores under the returned key, and
\* the address of an entry stays the same over every step that does not
\* erase that entry.
C16_ContextAddressStable ==
    /\ [](\A k \in DOMAIN nativeItems \cap DOMAIN monitoredItems :
            nativeItems[k].context = monitoredItems[k].address)
    /\ [][\A k \in DOMAIN monitoredItems \cap DOMAIN monitoredItems' :
            monitoredItems'[k].address = monitoredItems[k].address]_vars

\* The entry created second is still at its address, known to the stack,
\* after the entry created first has been deleted and erased.
C16_Witness ==
    /\ last.operation = "deleteMonitoredItem"
    /\ last.status = Good
    /\ last.hadEntry
    /\ last.key \notin DOMAIN monitoredItems
    /\ \E k \in DOMAIN monitoredItems \cap DOMAIN nativeItems :
           /\ monitoredItems[k].address = 2
           /\ nativeItems[k].context = 2

\* C17: every asynchronous call is resolved exactly once: while its entry
\* is pending its promise has not been completed, once the promise is
\* completed (with the response of its own request, or with a failure) the
\* entry is gone, and no promise is completed twice.
C17_ResolvedExactlyOnce ==
    /\ DOMAIN futures = 1..lastRequestId
    /\ DOMAIN pendingAsyncCalls \subseteq DOMAIN futures
    /\ \A token \in DOMAIN futures :
           IF token \in DOMAIN pendingAsyncCalls
           THEN resolutions[token] = 0 /\ futures[token] = Pending
           ELSE /\ resolutions[token] = 1
                /\ futures[token].state = "ready"
                /\ futures[token].result \in
                       {CallMethodResult(request) : request \in Requests} \cup {ConnectionClosed}

\* Calls resolved by the pump and by teardown, none outstanding.
C17_Witness ==
    /\ ~connected
    /\ lastRequestId = 3
    /\ pendingAsyncCalls = EmptyMap
    /\ futures[1].result = CallMethodResult("Add")
    /\ futures[2].result = ConnectionClosed
    /\ futures[3].result = CallMethodResult("AddThrowing")

\* C18: a call still outstanding when the connection is torn down has its
\* future completed with a connection-closed failure by the teardown; no
\* future stays pending after it, and none stays pending forever.
C18_TeardownCompletesFutures ==
    /\ [][(connected /\ ~connected') =>
            \A token \in DOMAIN pendingAsyncCalls :
                futures'[token] = [state |-> "ready", result |-> ConnectionClosed]]_vars
    /\ [](~connected => \A token \in DOMAIN futures : futures[token].state = "ready")
    /\ \A token \in 1..MaxAsyncCalls :
           (token \in DOMAIN futures /\ futures[token] = Pending)
               ~> (token \in DOMAIN futures /\ futures[token].state = "ready")

\* Teardown with two calls outstanding and one already answered.
C18_Witness ==
    /\ ~connected
    /\ lastRequestId = 3
    /\ futures[1].result = ConnectionClosed
    /\ futures[2].result = CallMethodResult("Add")
    /\ futures[3].result = ConnectionClosed

\* C19: a subscription a Client created is in the known-subscriptions
\* collection (once: the collection is keyed by id) until it is deleted;
\* after a successful deleteSubscription it is absent; deleting a
\* subscription that is not in the collection, such as one deleted before,
\* fails with BadSubscriptionIdInvalid and leaves the collection as it was.
C19_SubscriptionKnownUntilDeleted ==
    /\ []((role = "client" /\ last.operation = "createSubscription" /\ last.status = Good) =>
              last.returned \in DOMAIN subscriptions)
    /\ []((last.operation = "deleteSubscription" /\ last.status = Good) =>
              last.key[1] \notin DOMAIN subscriptions)
    /\ [][\A id \in DOMAIN subscriptions :
              id \notin DOMAIN subscriptions' =>
                  last'.operation = "deleteSubscription" /\ last'.key[1] = id]_vars
    /\ [][(last'.operation = "deleteSubscription" /\ last'.key[1] \notin DOMAIN subscriptions) =>
              /\ last'.status = "BadSubscriptionIdInvalid"
              /\ subscriptions' = subscriptions]_vars

\* The second deleteSubscription of a subscription that was created and
\* deleted.
C19_Witness ==
    /\ role = "client"
    /\ last.operation = "deleteSubscription"
    /\ last.status = "BadSubscriptionIdInvalid"
    /\ last.key[1] <= lastSubscriptionId
    /\ last.key[1] \notin DOMAIN subscriptions

\* C20: subscription creation, modification and deletion, event monitoring
\* and triggering on a Server fail with UnsupportedOperation and leave the
\* registry as it was.
C20_UnsupportedOnServer ==
    (/\ role = "server"
     /\ last.operation \in {"createSubscription", "setPublishingMode", "deleteSubscription",
                             "createMonitoredItemEvent", "setTriggering"}) =>
        /\ last.status = "UnsupportedOperation"
        /\ last.unchanged

\* C21: deleteMonitoredItem on a Client erases no registry entry itself: in
\* a delete call and in a pump cycle an entry leaves the registry exactly
\* when the delete-confirmation of its key runs (the stack drops the item
\* as it confirms); when the native delete returns a non-good status the
\* call fails with that status and the registry is unchanged.
C21_ErasedExactlyByConfirmation ==
    /\ [][(role = "client" /\ last'.operation \in {"deleteMonitoredItem", "runIterate"}) =>
            \A k \in DOMAIN monitoredItems :
                (k \notin DOMAIN monitoredItems') <=>
                    (k \in DOMAIN nativeItems /\ k \notin DOMAIN nativeItems')]_vars
    /\ []((role = "client" /\ last.operation = "deleteMonitoredItem" /\ last.nativeStatus # Good) =>
              /\ last.status = last.nativeStatus
              /\ last.unchanged)

\* C22: modifyMonitoredItem fails with the service result when that is not
\* good, with BadUnexpectedError when the response does not carry exactly
\* one item result, and with the item's status when that is not good; when
\* it fails the caller's parameters keep the requested values and the
\* registry is unchanged.
C22_FailedModifyChangesNothing ==
    last.operation = "modifyMonitoredItem" =>
        /\ last.nativeStatus # Good => last.status = last.nativeStatus
        /\ (last.nativeStatus = Good /\ last.status # Good) => last.status = "BadUnexpectedError"
        /\ last.status # Good =>
               /\ last.parameters = last.requested
               /\ last.unchanged

\* Modifying an item the peer does not know while the registry holds the
\* entry of another item.
C22_Witness ==
    /\ last.operation = "modifyMonitoredItem"
    /\ last.status = "BadMonitoredItemIdInvalid"
    /\ last.parameters = last.requested
    /\ ~last.hadEntry
    /\ DOMAIN monitoredItems # {}

\* The operation just performed surfaced the delete-confirmation of `key`.
FromConfirmation(key) ==
    \/ last.operation = "deleteMonitoredItem" /\ last.key = key
    \/ last.operation = "deleteSubscription" /\ last.key[1] = key[1]
    \/ /\ last.operation = "runIterate"
       /\ \E j \in 1..Len(last.batch) : last.batch[j] = [type |-> "delete", key |-> key]

\* C23: the delete callback stored for a client monitored item is invoked
\* at most once for that item, only from the item's delete-confirmation and
\* with the item's own subscription id and monitored item id; a
\* delete-confirmation that carries a null context address invokes no
\* callback and erases the registry entry of its key.
C23_DeleteCallbackAtMostOnce ==
    /\ [][calls' # calls =>
            \A i \in 1..Len(calls') :
                calls'[i].callback = "delete" =>
                    /\ ClientKey(calls'[i].subId, calls'[i].monId) \notin deleteCallbackCalls
                    /\ \A j \in 1..Len(calls') :
                           (j # i /\ calls'[j].callback = "delete") =>
                               calls'[j].monId # calls'[i].monId \/ calls'[j].subId # calls'[i].subId]_vars
    /\ [](\A i \in 1..Len(calls) :
              calls[i].callback = "delete" =>
                  /\ calls[i].owner = ClientKey(calls[i].subId, calls[i].monId)
                  /\ FromConfirmation(calls[i].owner))
    /\ [](last.operation = "deleteConfirmation" =>
              /\ calls = << >>
              /\ last.status = Good
              /\ last.key \notin DOMAIN monitoredItems)

\* A delete-confirmation without context has erased an entry, after the
\* delete callback of another item was invoked by its own confirmation.
C23_Witness ==
    /\ last.operation = "deleteConfirmation"
    /\ last.hadEntry
    /\ last.key \notin DOMAIN monitoredItems
    /\ calls = << >>
    /\ deleteCallbackCalls # {}
    /\ last.key \notin deleteCallbackCalls

============================================================================
